---- MODULE Spec2Model ----
(***************************************************************************)
(* Model of src/pages/OrganizationDetail.tsx: the OrganizationDetail view   *)
(* (route id, the three useState cells, the two asynchronous fetches that   *)
(* the effect issues, the render) and the member classifier groupMembers.   *)
(*                                                                           *)
(* JavaScript strings are TLA+ strings; a nullable value is a sequence of   *)
(* length 0 (null / undefined) or 1 (the value).                            *)
(***************************************************************************)
EXTENDS Integers, Sequences, FiniteSets, TLC

\* ---------------------------------------------------------------- bounds
MaxMembers == 2       \* longest member list the data service returns
MaxNavigations == 1   \* route id changes after the mount

\* ------------------------------------------------------- nullable values
Null == <<>>
Some(v) == <<v>>

\* ---------------------------------------------------------- string model
Char(s, i) == SubSeq(s, i, i)

UpperLetters == "ABCDEFGHIJKLMNOPQRSTUVWXYZ"
LowerLetters == "abcdefghijklmnopqrstuvwxyz"

\* the characters matched by \s that occur in the modelled inputs
WhiteSpace == {" ", "\t"}

lowerChar(c) ==
  IF \E i \in 1..Len(UpperLetters) : Char(UpperLetters, i) = c
  THEN Char(LowerLetters, CHOOSE i \in 1..Len(UpperLetters) : Char(UpperLetters, i) = c)
  ELSE c

RECURSIVE toLowerCase(_)
toLowerCase(s) ==
  IF Len(s) = 0 THEN "" ELSE lowerChar(Char(s, 1)) \o toLowerCase(Tail(s))

\* pos.replace(/\./g, "")
RECURSIVE removePeriods(_)
removePeriods(s) ==
  IF Len(s) = 0 THEN ""
  ELSE IF Char(s, 1) = "." THEN removePeriods(Tail(s))
  ELSE Char(s, 1) \o removePeriods(Tail(s))

\* .replace(/\s+/g, " "): every maximal run of whitespace becomes one space
RECURSIVE collapseWhitespace(_)
collapseWhitespace(s) ==
  IF Len(s) = 0 THEN ""
  ELSE IF Char(s, 1) \in WhiteSpace
       THEN IF Len(s) > 1 /\ Char(s, 2) \in WhiteSpace
            THEN collapseWhitespace(Tail(s))
            ELSE " " \o collapseWhitespace(Tail(s))
       ELSE Char(s, 1) \o collapseWhitespace(Tail(s))

RECURSIVE trimStart(_)
trimStart(s) ==
  IF Len(s) > 0 /\ Char(s, 1) \in WhiteSpace THEN trimStart(Tail(s)) ELSE s

RECURSIVE trimEnd(_)
trimEnd(s) ==
  IF Len(s) > 0 /\ Char(s, Len(s)) \in WhiteSpace
  THEN trimEnd(SubSeq(s, 1, Len(s) - 1)) ELSE s

trim(s) == trimEnd(trimStart(s))

\* String.prototype.includes
includes(s, k) ==
  \E i \in 0..(Len(s) - Len(k)) : SubSeq(s, i + 1, i + Len(k)) = k

\* ------------------------------------------------------ member classifier
\* the substrings of the isOfficer disjunction
officerKeywords ==
  { "president", "vice", "secretary", "treasurer", "auditor", "pio", "officer",
    "committee chair", "chairperson", "chair:", "chairs:", "head", "leader",
    "coordinator", "director", "editor", "manager",
    "punong", "patnugot", "katuwang", "tagapag-payo", "tagapagpayo",
    "litratista", "tagaguhit", "video editor" }

\* the titles that occur in the position column of the modelled tables
Positions ==
  { Null, Some(""), Some("President"), Some("PRESIDENT"), Some("pres.ident"),
    Some("Grade 7 Representative"), Some("Mamamahayag"), Some("Head, Grade 10"),
    Some("headquarters"), Some(" Committee \t Chair "), Some("Member") }

\* const pos = member.position?.toLowerCase() || ""
pos(position) ==
  IF position = Null THEN "" ELSE toLowerCase(position[1])

\* mutant: the periods are not removed
normalizeKeepPeriods(p) == trim(collapseWhitespace(p))

\* const normalizedPos = pos.replace(/\./g, "").replace(/\s+/g, " ").trim()
normalize(p) == trim(collapseWhitespace(removePeriods(p)))

normalizedPos(position) == normalize(pos(position))

isOfficer(np) == \E k \in officerKeywords : includes(np, k)

isMemberPosition(np) == includes(np, "mamamahayag")

\* mutant: the representative test comes before the officer test
bucketOfRepresentativeFirst(position) ==
  LET np == normalizedPos(position) IN
  IF includes(np, "representative") \/ includes(np, "grade") THEN "representatives"
  ELSE IF isOfficer(np) THEN "officers"
  ELSE "regularMembers"

\* mutant: the representative test compares the whole text
bucketOfWholeText(position) ==
  LET np == normalizedPos(position) IN
  IF isOfficer(np) THEN "officers"
  ELSE IF np = "representative" \/ np = "grade" THEN "representatives"
  ELSE "regularMembers"

\* the if / else-if chain: the name of the array a member with this position
\* is pushed to
bucketOf(position) ==
  LET np == normalizedPos(position) IN
  IF isOfficer(np) THEN "officers"
  ELSE IF includes(np, "representative") \/ includes(np, "grade") THEN "representatives"
  ELSE IF isMemberPosition(np) THEN "regularMembers"
  ELSE "regularMembers"

\* bucketOf on every title of the tables, evaluated once
bucketTable == [p \in Positions |-> bucketOf(p)]

bucket(member) == bucketTable[member.position]

\* mutant: three independent ifs instead of the else-if chain
pushNoElse(acc, member) ==
  LET np == normalizedPos(member.position)
      rep == includes(np, "representative") \/ includes(np, "grade")
      a1 == IF isOfficer(np) THEN [acc EXCEPT !.officers = Append(@, member)] ELSE acc
      a2 == IF rep THEN [a1 EXCEPT !.representatives = Append(@, member)] ELSE a1
  IN IF ~isOfficer(np) /\ ~rep THEN [a2 EXCEPT !.regularMembers = Append(@, member)] ELSE a2

\* mutant: unshift instead of push
pushFront(acc, member) == [acc EXCEPT ![bucket(member)] = <<member>> \o @]

push(acc, member) == [acc EXCEPT ![bucket(member)] = Append(@, member)]

RECURSIVE forEach(_, _, _)
forEach(ms, i, acc) ==
  IF i > Len(ms) THEN acc ELSE forEach(ms, i + 1, push(acc, ms[i]))

groupMembers(ms) ==
  forEach(ms, 1, [officers |-> <<>>, representatives |-> <<>>, regularMembers |-> <<>>])

\* ------------------------------------------------------------ the render
\* what the component returns: the spinner, the "Organization Not Found"
\* page, or the detail page with either the "No members listed yet" panel or
\* the three member sections
Render(st) ==
  LET g == groupMembers(st.members)
      hidden == [title |-> Null, section |-> "none",
                 officers |-> <<>>, representatives |-> <<>>, regularMembers |-> <<>>]
  IN IF st.loading THEN [screen |-> "spinner"] @@ hidden
     ELSE IF st.organization = Null THEN [screen |-> "notFound"] @@ hidden
     ELSE IF Len(st.members) = 0
          THEN [screen |-> "detail", title |-> Some(st.organization[1].id),
                section |-> "empty", officers |-> <<>>,
                representatives |-> <<>>, regularMembers |-> <<>>]
          ELSE [screen |-> "detail", title |-> Some(st.organization[1].id),
                section |-> "groups", officers |-> g.officers,
                representatives |-> g.representatives,
                regularMembers |-> g.regularMembers]

\* ------------------------------------------------------- the data service
Ids == {"o1", "o2"}

\* the values useParams().id can take
RouteIds == {Null} \cup { Some(i) : i \in Ids }

\* the titles of the tables of the navigation runs
PositionsShort == { Some("President"), Some("Grade 7 Representative") }

\* the organization_members tables with at most MaxMembers rows over the
\* titles P, in display_order; row k has id k
Tables(P) ==
  UNION { { [k \in 1..n |-> [id |-> k, organization_id |-> f[k].organization_id,
                             position |-> f[k].position]]
            : f \in [1..n -> [organization_id : Ids, position : P]] }
          : n \in 0..MaxMembers }

\* .from("organization_members").select("*").eq("organization_id", id)
\*   .order("display_order", { ascending: true })
selectMembers(tbl, i) == SelectSeq(tbl, LAMBDA row : row.organization_id = i)

\* { data, error } of the organizations query for route id i
OrganizationResponses(i) ==
  { [error |-> TRUE,  data |-> Null],
    [error |-> FALSE, data |-> Null],
    [error |-> FALSE, data |-> Some([id |-> i])] }

\* { data } of the organization_members query for route id i: the query
\* fails, or it returns the rows of the organization
MembersResponses(tbl, i) == { [data |-> Null], [data |-> Some(selectMembers(tbl, i))] }

\* ------------------------------------------------------------- the state
VARIABLES
  table,            \* the rows of organization_members in the data service
  mounted,          \* the component has rendered and run its effect once
  id,               \* useParams().id, Null when the route has none
  organization,     \* useState<Organization | null>(null)
  members,          \* useState<OrganizationMember[]>([])
  loading,          \* useState(true)
  pending,          \* requests awaited by fetchOrganization / fetchMembers
  officers, representatives, regularMembers,  \* groupMembers() of the last render
  view,             \* what the last render returned
  issued,           \* history: number of requests of each kind issued so far
  navigations,      \* history: number of route id changes
  last              \* history: the last event

vars == << table, mounted, id, organization, members, loading, pending,
           officers, representatives, regularMembers, view,
           issued, navigations, last >>

state == [organization |-> organization, members |-> members, loading |-> loading]

\* the render that follows a state update
rendered(st) ==
  LET g == groupMembers(st.members) IN
  /\ officers' = g.officers
  /\ representatives' = g.representatives
  /\ regularMembers' = g.regularMembers
  /\ view' = Render(st)

InitView ==
  /\ mounted = FALSE
  /\ id \in RouteIds
  /\ organization = Null
  /\ members = <<>>
  /\ loading = TRUE
  /\ pending = {}
  /\ officers = <<>> /\ representatives = <<>> /\ regularMembers = <<>>
  /\ view = Render([organization |-> Null, members |-> <<>>, loading |-> TRUE])
  /\ issued = [organization |-> 0, members |-> 0]
  /\ navigations = 0
  /\ last = [op |-> "init", id |-> Null, result |-> "none"]

\* a page view over any table of the short titles
Init == table \in Tables(PositionsShort) /\ InitView

\* a page view over any table of all the titles
InitClassifier == table \in Tables(Positions) /\ InitView

\* useEffect(() => { if (id) { fetchOrganization(); fetchMembers(); } }, [id])
\* each fetch captures the id of the render the effect belongs to
useEffect(i) ==
  IF i # Null
  THEN /\ pending' = pending \cup
                     { [kind |-> "organization", id |-> i[1], n |-> issued.organization + 1],
                       [kind |-> "members", id |-> i[1], n |-> issued.members + 1] }
       /\ issued' = [organization |-> issued.organization + 1,
                     members |-> issued.members + 1]
  ELSE UNCHANGED << pending, issued >>

\* first render and first run of the effect
Mount ==
  /\ ~mounted
  /\ mounted' = TRUE
  /\ useEffect(id)
  /\ rendered(state)
  /\ last' = [op |-> "mount", id |-> id, result |-> "none"]
  /\ UNCHANGED << table, id, organization, members, loading, navigations >>

\* mutant: the effect shows the spinner again (setLoading(true)) on a route change
NavigateSpinner(i) ==
  /\ mounted
  /\ i # id
  /\ navigations < MaxNavigations
  /\ id' = i
  /\ navigations' = navigations + 1
  /\ useEffect(i)
  /\ loading' = TRUE
  /\ rendered([state EXCEPT !.loading = TRUE])
  /\ last' = [op |-> "navigate", id |-> i, result |-> "none"]
  /\ UNCHANGED << table, mounted, organization, members >>

\* the route id changes while the component stays mounted: the state cells
\* are kept, the component renders again and the effect runs for the new id
Navigate(i) ==
  /\ mounted
  /\ i # id
  /\ navigations < MaxNavigations
  /\ id' = i
  /\ navigations' = navigations + 1
  /\ useEffect(i)
  /\ rendered(state)
  /\ last' = [op |-> "navigate", id |-> i, result |-> "none"]
  /\ UNCHANGED << table, mounted, organization, members, loading >>

\* mutant: setLoading(false) only inside the if
fetchOrganizationThenKeepLoading(st, resp) ==
  IF ~resp.error /\ resp.data # Null
  THEN [st EXCEPT !.organization = resp.data, !.loading = FALSE]
  ELSE st

\* fetchOrganization after its await
fetchOrganizationThen(st, resp) ==
  [st EXCEPT !.organization = IF ~resp.error /\ resp.data # Null THEN resp.data ELSE @,
             !.loading = FALSE]

\* mutant: setMembers(data ?? [])
fetchMembersThenClear(st, resp) ==
  [st EXCEPT !.members = IF resp.data # Null THEN resp.data[1] ELSE <<>>]

\* mutant: fetchMembers ends the loading state too
fetchMembersThenStopLoading(st, resp) ==
  [st EXCEPT !.members = IF resp.data # Null THEN resp.data[1] ELSE @,
             !.loading = FALSE]

\* fetchMembers after its await
fetchMembersThen(st, resp) ==
  [st EXCEPT !.members = IF resp.data # Null THEN resp.data[1] ELSE @]

setState(st) ==
  /\ organization' = st.organization
  /\ members' = st.members
  /\ loading' = st.loading
  /\ rendered(st)

fetchOrganization(r, resp) ==
  /\ r \in pending /\ r.kind = "organization"
  /\ pending' = pending \ {r}
  /\ setState(fetchOrganizationThen(state, resp))
  /\ last' = [op |-> "fetchOrganization", id |-> Some(r.id),
              result |-> IF resp.error THEN "error"
                         ELSE IF resp.data = Null THEN "noRecord" ELSE "record"]
  /\ UNCHANGED << table, mounted, id, issued, navigations >>

fetchMembers(r, resp) ==
  /\ r \in pending /\ r.kind = "members"
  /\ pending' = pending \ {r}
  /\ setState(fetchMembersThen(state, resp))
  /\ last' = [op |-> "fetchMembers", id |-> Some(r.id),
              result |-> IF resp.data = Null THEN "noData" ELSE "data"]
  /\ UNCHANGED << table, mounted, id, issued, navigations >>

Next ==
  \/ Mount
  \/ \E i \in RouteIds : Navigate(i)
  \/ \E r \in pending : \E resp \in OrganizationResponses(r.id) : fetchOrganization(r, resp)
  \/ \E r \in pending : \E resp \in MembersResponses(table, r.id) : fetchMembers(r, resp)

\* every run of the view, route changes included
Spec == Init /\ [][Next]_vars

\* one page view: the route id does not change after the mount
NextClassifier ==
  \/ Mount
  \/ \E r \in pending : \E resp \in OrganizationResponses(r.id) : fetchOrganization(r, resp)
  \/ \E r \in pending : \E resp \in MembersResponses(table, r.id) : fetchMembers(r, resp)

SpecClassifier == InitClassifier /\ [][NextClassifier]_vars

\* =================================================================== claims
Range(seq) == { seq[i] : i \in DOMAIN seq }

Count(seq, x) == Cardinality({ i \in DOMAIN seq : seq[i] = x })

IndexIn(seq, x) == CHOOSE i \in DOMAIN seq : seq[i] = x

\* the names of the groups of the last render that hold member m
GroupsOf(m) ==
  { g \in {"officers", "representatives", "regularMembers"} :
      m \in Range(CASE g = "officers" -> officers
                    [] g = "representatives" -> representatives
                    [] OTHER -> regularMembers) }

\* the normalized text of every title, and the keywords it contains
normalizedTable == [p \in Positions |-> normalizedPos(p)]

hasOfficerKeyword ==
  [p \in Positions |-> \E k \in officerKeywords : includes(normalizedTable[p], k)]

hasRepresentativeKeyword ==
  [p \in Positions |-> \/ includes(normalizedTable[p], "representative")
                       \/ includes(normalizedTable[p], "grade")]

\* number of organization requests that have resolved
resolvedOrganization ==
  issued.organization - Cardinality({ r \in pending : r.kind = "organization" })

\* the step is the continuation of fetchOrganization / of fetchMembers
OrganizationStep == last'.op = "fetchOrganization" /\ pending' # pending
MembersStep == last'.op = "fetchMembers" /\ pending' # pending

\* C1: in every state the three groups of the last render, taken together as
\* multisets, are the member list held by the view: each member is in exactly
\* one group, exactly as often as in the list.
C1_Partition ==
  /\ \A m \in Range(members) \cup Range(officers) \cup Range(representatives)
              \cup Range(regularMembers) :
        Count(members, m) =
          Count(officers, m) + Count(representatives, m) + Count(regularMembers, m)
  /\ \A m \in Range(members) : Cardinality(GroupsOf(m)) = 1
  /\ Len(members) = Len(officers) + Len(representatives) + Len(regularMembers)

C1_Witness ==
  /\ Len(members) = 2
  /\ Len(officers) = 1
  /\ Len(representatives) + Len(regularMembers) = 1

\* C2: within each group two members stand in the order they have in the
\* member list the view holds.
C2_Stable ==
  \A g \in {officers, representatives, regularMembers} :
    \A i, j \in DOMAIN g :
      /\ g[i] \in Range(members)
      /\ g[j] \in Range(members)
      /\ (i < j) <=> (IndexIn(members, g[i]) < IndexIn(members, g[j]))

C2_Witness ==
  Len(officers) = 2 \/ Len(representatives) = 2 \/ Len(regularMembers) = 2

\* C3: a member whose normalized position contains an officer keyword as a
\* substring is in officers and in no other group, also when the position
\* contains "representative" or "grade"; "Head, Grade 10" and "headquarters"
\* are officers.
C3_OfficerFirst ==
  \A m \in Range(members) :
    /\ hasOfficerKeyword[m.position] => GroupsOf(m) = {"officers"}
    /\ m.position \in {Some("Head, Grade 10"), Some("headquarters")}
         => GroupsOf(m) = {"officers"}

C3_Witness ==
  \E m \in Range(members) :
    /\ m.position = Some("Head, Grade 10")
    /\ hasRepresentativeKeyword[m.position]
    /\ m \in Range(officers)

\* the texts that differ from s only in letter case, in inserted periods or in
\* the amount of surrounding / internal whitespace
upperChar(c) ==
  IF \E i \in 1..Len(LowerLetters) : Char(LowerLetters, i) = c
  THEN Char(UpperLetters, CHOOSE i \in 1..Len(LowerLetters) : Char(LowerLetters, i) = c)
  ELSE c

RECURSIVE toUpperCase(_)
toUpperCase(s) ==
  IF Len(s) = 0 THEN "" ELSE upperChar(Char(s, 1)) \o toUpperCase(Tail(s))

RECURSIVE widenWhitespace(_)
widenWhitespace(s) ==
  IF Len(s) = 0 THEN ""
  ELSE IF Char(s, 1) \in WhiteSpace
       THEN Char(s, 1) \o "\t " \o widenWhitespace(Tail(s))
       ELSE Char(s, 1) \o widenWhitespace(Tail(s))

Variants(s) ==
  { toUpperCase(s), toLowerCase(s), widenWhitespace(s), "  " \o s \o " \t" }
  \cup { SubSeq(s, 1, i) \o "." \o SubSeq(s, i + 1, Len(s)) : i \in 0..Len(s) }

variantsAgree ==
  [p \in Positions |->
     p = Null \/ \A v \in Variants(p[1]) : bucketOf(Some(v)) = bucketOf(p)]

\* C4: the group of a member is decided by the normalized position alone: two
\* members whose positions normalize to the same text are in the same group,
\* every variant of a position in case, periods or whitespace is classified
\* like the position, and "President", "PRESIDENT", "pres.ident" are officers.
C4_NormalizedOnly ==
  /\ \A m \in Range(members) :
       /\ variantsAgree[m.position]
       /\ m.position \in {Some("President"), Some("PRESIDENT"), Some("pres.ident")}
            => GroupsOf(m) = {"officers"}
  /\ \A m1, m2 \in Range(members) :
       normalizedTable[m1.position] = normalizedTable[m2.position]
         => GroupsOf(m1) = GroupsOf(m2)

C4_Witness ==
  /\ Len(officers) = 2
  /\ officers[1].position = Some("PRESIDENT")
  /\ officers[2].position = Some("pres.ident")

\* C5: a member whose normalized position contains no officer keyword is in
\* representatives exactly when it contains "representative" or "grade", and
\* in regularMembers otherwise; a null, an empty, the "Mamamahayag" and an
\* unmatched position are regular members.
C5_RepresentativeOrRegular ==
  \A m \in Range(members) :
    /\ ~hasOfficerKeyword[m.position] =>
         /\ hasRepresentativeKeyword[m.position] <=> GroupsOf(m) = {"representatives"}
         /\ ~hasRepresentativeKeyword[m.position] <=> GroupsOf(m) = {"regularMembers"}
    /\ m.position \in {Null, Some(""), Some("Mamamahayag"), Some("Member")}
         => GroupsOf(m) = {"regularMembers"}
    /\ m.position = Some("Grade 7 Representative") => GroupsOf(m) = {"representatives"}

C5_Witness ==
  /\ Len(members) = 2
  /\ members[1].position = Null
  /\ members[2].position = Some("Grade 7 Representative")
  /\ Len(regularMembers) = 1 /\ Len(representatives) = 1

\* C6: after the organization request for the current route id resolved with
\* an error or with no record, the view is the "Organization Not Found" page:
\* loading is false and no organization is held.
C6_NotFoundAfterFailure ==
  (/\ last.op = "fetchOrganization"
   /\ last.result \in {"error", "noRecord"}
   /\ last.id = id)
  => (view.screen = "notFound" /\ ~loading /\ organization = Null)

\* C7 as stated: after a member request resolved without data the member list
\* is empty and the view renders the "No members listed yet" panel.
C7_EmptyPanelAfterFailure ==
  (last.op = "fetchMembers" /\ last.result = "noData")
  => (members = <<>> /\ view.screen = "detail" /\ view.section = "empty")

\* C7 amended: a member request that resolves without data leaves the member
\* list as it was and enters no error state (the page shown stays the same);
\* the "No members listed yet" panel is rendered exactly when loading is
\* false, an organization is held and the member list is empty.
C7_FailureIgnored ==
  [][ /\ (MembersStep /\ last'.result = "noData") =>
            /\ members' = members
            /\ view' = view
      /\ (view'.section = "empty") <=>
            (~loading' /\ organization' # Null /\ members' = <<>>) ]_vars

C7_Witness ==
  /\ last.op = "fetchMembers" /\ last.result = "noData"
  /\ view.screen = "detail" /\ view.section = "empty"

\* C8 as stated: the spinner is shown exactly until an organization request
\* has resolved, and the member list is rendered once the member request has
\* resolved with rows, whatever the state of the organization request.
C8_MembersRenderedAtOnce ==
  /\ (view.screen = "spinner") <=> (resolvedOrganization = 0)
  /\ (last.op = "fetchMembers" /\ last.result = "data" /\ members # <<>>)
       => view.section = "groups"

\* C8 amended: the spinner is shown exactly until the first organization
\* request resolves; a member request that resolves with rows puts them in the
\* member list at once, whatever the state of the organization request, but
\* the member sections are rendered only when loading is false and an
\* organization is held, and then they are the three groups.
C8_SpinnerThenGatedMembers ==
  /\ (view.screen = "spinner") <=> (resolvedOrganization = 0)
  /\ (last.op = "fetchMembers" /\ last.result = "data")
       => members = selectMembers(table, last.id[1])
  /\ (view.section = "groups") <=>
       (~loading /\ organization # Null /\ members # <<>>)
  /\ view.section = "groups" =>
       /\ view.officers = officers
       /\ view.representatives = representatives
       /\ view.regularMembers = regularMembers

C8_Witness ==
  /\ last.op = "fetchMembers" /\ last.result = "data"
  /\ members # <<>>
  /\ view.screen = "spinner"

\* C9: the continuation of fetchOrganization leaves members unchanged, the
\* continuation of fetchMembers leaves organization and loading unchanged, the
\* two continuations of one route id commute (the view state after both is the
\* same in either order), and each step issues one request of each kind when
\* it gives the route id a new present value and none otherwise.
C9_Commute ==
  \A ro, rm \in pending :
    (ro.kind = "organization" /\ rm.kind = "members" /\ ro.id = rm.id) =>
      \A o \in OrganizationResponses(ro.id), m \in MembersResponses(table, rm.id) :
        fetchMembersThen(fetchOrganizationThen(state, o), m)
          = fetchOrganizationThen(fetchMembersThen(state, m), o)

C9_Disjoint ==
  /\ []C9_Commute
  /\ [][ /\ OrganizationStep => members' = members
         /\ MembersStep => (organization' = organization /\ loading' = loading)
         /\ LET n == IF (id' # id \/ mounted' # mounted) /\ id' # Null THEN 1 ELSE 0
            IN /\ issued'.organization = issued.organization + n
               /\ issued'.members = issued.members + n ]_vars

C9_Witness ==
  /\ navigations = 0
  /\ issued.organization = 1 /\ issued.members = 1
  /\ pending = {}
  /\ last.op = "fetchMembers" /\ last.result = "data"
  /\ ~loading /\ organization # Null /\ members # <<>>

\* C10: loading starts true, only the continuation of fetchOrganization makes
\* it false, once false it stays false over every route change and
\* resolution, and while no request was issued (the route id absent) it is
\* true; a step that leaves the route id absent issues no request.
C10_LoadingMonotone ==
  /\ loading = TRUE
  /\ [](issued.organization = 0 => loading)
  /\ [][ /\ ~loading => ~loading'
         /\ (loading /\ ~loading') => OrganizationStep
         /\ id' = Null => issued' = issued ]_vars

C10_Witness ==
  /\ ~loading
  /\ last.op = "navigate"
  /\ \E r \in pending : r.kind = "organization"

====
